---------------------------- MODULE Spec2Model ----------------------------
(***************************************************************************)
(* rle-rs: a run-length codec (encode / decode over byte vectors) and the  *)
(* command-line program around it (Config::new, run, main).                *)
(*                                                                         *)
(* Rust indexes from 0, TLA+ sequences from 1: the Rust element bytes[k]   *)
(* is bytes[k + 1] here.  The variable `it` is the number of elements the  *)
(* running iterator has already consumed, i.e. the Rust index of the next  *)
(* element.                                                                *)
(***************************************************************************)
EXTENDS Integers, Sequences, FiniteSets, TLC

VARIABLES
    pc,           \* position of the (single) thread of control
    func,         \* the function being executed: "encode" | "decode" | "none"
    bytes,        \* the `bytes` argument of encode / decode
    encoding,     \* encode: local `encoding`
    occurrences,  \* encode: local `occurrences` (u8)
    it,           \* position of the iterator of the running for loop
    decoding,     \* decode: local `decoding`
    result,       \* value returned by the last call of encode / decode
    iters,        \* history: bodies of encode's for loop executed so far
    finals,       \* history: executions of encode's trailing push (line 79)
    b,            \* caller: the raw data handed to encode (round trip)
    args,         \* main: the command line, args[1] being the program name
    config,       \* main: the Config built from args, or NoConfig
    fs,           \* the file system: path -> contents or NoFile
    log,          \* history: file system and codec calls made by the process
    stderr,       \* what the process wrote to the error stream
    exit_code     \* process exit status, NotExited while running

vars == << pc, func, bytes, encoding, occurrences, it, decoding, result,
           iters, finals, b, args, config, fs, log, stderr, exit_code >>

codecVars == << func, bytes, encoding, occurrences, it, decoding, result,
                iters, finals >>
mainVars == << args, config, fs, log, stderr, exit_code >>

-----------------------------------------------------------------------------
(* Bounds of the model *)

\* longest raw input enumerated byte by byte
MaxRawLen == 4
\* most runs an input built from runs is made of
MaxRuns == 2
\* length of the over-long run (more than Cap, less than 2 * Cap)
LongRun == 300
\* longest decoder input enumerated byte by byte
MaxEncLen == 4
\* longest file content of the command-line scenarios
MaxFileLen == 3

(* Program constants *)

\* the run-length cap of encode
Cap == 255
\* number of values of a u8
U8 == 256
\* exit status returned by bail
BailCode == 1
\* exit status of the process when a panic unwinds out of main
PanicCode == 101

-----------------------------------------------------------------------------
(* Helpers on sequences *)

Last(s) == s[Len(s)]

\* n copies of v
Rep(v, n) == [ k \in 1..n |-> v ]

\* all sequences over S of length at most n
SeqsUpTo(S, n) == UNION { [1..k -> S] : k \in 0..n }

\* concatenation of a sequence of sequences
RECURSIVE Flatten(_)
Flatten(ss) == IF ss = <<>> THEN <<>> ELSE Head(ss) \o Flatten(Tail(ss))

-----------------------------------------------------------------------------
(* encode, src/main.rs 59-82 *)

\* the loop's condition for extending the open run (line 71)
SameRun_NoCap(byte, last, occ) == byte = last
SameRun_Cap254(byte, last, occ) == byte = last /\ occ < Cap - 1
SameRun_AnyByte(byte, last, occ) == occ < Cap
SameRun(byte, last, occ) == byte = last /\ occ < Cap

\* lines 60-68: empty input returns at once, otherwise the first byte seeds
\* the output and the counter starts at 1; the iterator skips one element
EncodeBegin ==
    /\ pc = "encode"
    /\ IF Len(bytes) = 0
         THEN /\ result' = <<>>
              /\ pc' = "ret"
              /\ UNCHANGED << encoding, occurrences, it >>
         ELSE /\ encoding' = << bytes[1] >>
              /\ occurrences' = 1
              /\ it' = 1
              /\ pc' = "encode_loop"
              /\ UNCHANGED result
    /\ UNCHANGED << func, bytes, decoding, iters, finals, b >>
    /\ UNCHANGED mainVars

\* lines 70-77: one execution of the loop body
EncodeIter ==
    /\ pc = "encode_loop"
    /\ it < Len(bytes)
    /\ LET byte == bytes[it + 1] IN
         IF SameRun(byte, Last(encoding), occurrences)
           THEN /\ occurrences' = (occurrences + 1) % U8
                /\ UNCHANGED encoding
           ELSE /\ encoding' = encoding \o << occurrences, byte >>
                /\ occurrences' = 1
    /\ it' = it + 1
    /\ iters' = iters + 1
    /\ UNCHANGED << pc, func, bytes, decoding, result, finals, b >>
    /\ UNCHANGED mainVars

\* lines 79-81: the iterator is exhausted; push the open run's count, return
EncodeEnd ==
    /\ pc = "encode_loop"
    /\ it = Len(bytes)
    /\ encoding' = Append(encoding, occurrences)
    /\ result' = encoding'
    /\ finals' = finals + 1
    /\ pc' = "ret"
    /\ UNCHANGED << func, bytes, occurrences, it, decoding, iters, b >>
    /\ UNCHANGED mainVars

-----------------------------------------------------------------------------
(* decode, src/main.rs 87-103 *)

\* lines 97-99: push `byte`, `count` times
Repeat_OneLess(byte, count) == Rep(byte, count - 1)
Repeat_CountFirst(byte, count) == Rep(count, byte)
Repeat(byte, count) == Rep(byte, count)

\* line 88
DecodeBegin ==
    /\ pc = "decode"
    /\ decoding' = <<>>
    /\ it' = 0
    /\ pc' = "decode_loop"
    /\ UNCHANGED << func, bytes, encoding, occurrences, result, iters, finals, b >>
    /\ UNCHANGED mainVars

\* lines 90-100: one element of bytes.iter().enumerate().  Odd indices are
\* skipped; at an even index i the count is read with the bounds-checked
\* index bytes[i+1], which panics when i+1 is past the end.
DecodeIter ==
    /\ pc = "decode_loop"
    /\ it < Len(bytes)
    /\ IF it % 2 # 0
         THEN /\ it' = it + 1
              /\ UNCHANGED << pc, decoding >>
         ELSE IF it + 1 < Len(bytes)
           THEN /\ decoding' = decoding \o Repeat(bytes[it + 1], bytes[it + 2])
                /\ it' = it + 1
                /\ UNCHANGED pc
           ELSE /\ pc' = "panic"
                /\ UNCHANGED << it, decoding >>
    /\ UNCHANGED << func, bytes, encoding, occurrences, result, iters, finals, b >>
    /\ UNCHANGED mainVars

\* line 102
DecodeEnd ==
    /\ pc = "decode_loop"
    /\ it = Len(bytes)
    /\ result' = decoding
    /\ pc' = "ret"
    /\ UNCHANGED << func, bytes, encoding, occurrences, it, decoding, iters, finals, b >>
    /\ UNCHANGED mainVars

Codec == EncodeBegin \/ EncodeIter \/ EncodeEnd \/ DecodeBegin \/ DecodeIter \/ DecodeEnd

-----------------------------------------------------------------------------
(* The codec applied to bounded inputs: encode(b) and then decode of its   *)
(* result, or decode of an arbitrary byte sequence.                         *)

NoData == << -1 >>
NoConfig == [ kind |-> "none" ]
NoFile == << -2 >>
NotExited == << >>

\* byte values of the inputs enumerated byte by byte
RawBytes == { 0, 1, 255 }
\* values and lengths of the runs of the inputs built from runs
RunValues == { 0, 1, 255 }
RunLens == { 1, 2, Cap, Cap + 1, LongRun }
RunInputs ==
    { Flatten([ k \in 1..Len(rs) |-> Rep(rs[k][1], rs[k][2]) ]) :
        rs \in SeqsUpTo(RunValues \X RunLens, MaxRuns) }
Examples == { << 1, 1, 1, 2, 2, 3 >>, << 3, 3, 3 >> }
EncInputs == SeqsUpTo(RawBytes, MaxRawLen) \cup RunInputs \cup Examples

\* decoder inputs: values and counts, 0 and 255 included, odd lengths too
DecBytes == { 0, 1, 2, 255 }
DecInputs == SeqsUpTo(DecBytes, MaxEncLen)

CodecIdle ==
    /\ encoding = <<>> /\ occurrences = 0 /\ it = 0 /\ decoding = <<>>
    /\ result = NoData /\ iters = 0 /\ finals = 0

MainIdle ==
    /\ args = <<>> /\ config = NoConfig /\ fs = <<>> /\ log = <<>>
    /\ stderr = <<>> /\ exit_code = NotExited

Init ==
    /\ CodecIdle
    /\ MainIdle
    /\ \/ /\ b \in EncInputs
          /\ bytes = b
          /\ func = "encode"
          /\ pc = "encode"
       \/ /\ b = NoData
          /\ bytes \in DecInputs
          /\ func = "decode"
          /\ pc = "decode"

\* the caller hands encode's result to decode
RoundTrip ==
    /\ pc = "ret"
    /\ func = "encode"
    /\ bytes' = result
    /\ func' = "decode"
    /\ pc' = "decode"
    /\ UNCHANGED << encoding, occurrences, it, decoding, result, iters, finals, b >>
    /\ UNCHANGED mainVars

Next == Codec \/ RoundTrip

Spec == Init /\ [][Next]_vars

-----------------------------------------------------------------------------
(* The command-line program, src/main.rs 5-54 and 108-143 *)

\* Config::new, lines 129-143.  Rust's args[1] is args[2] here.  The test of
\* line 135 asks for element 1 again, which line 130 has already shown to
\* exist, so it never fails; args[2] of line 139 is a bounds-checked index.
Config_new(a) ==
    IF Len(a) < 2
      THEN [ kind |-> "Err", msg |-> "no argument was specified" ]
      ELSE IF a[2] = "d"
        THEN IF Len(a) < 2
               THEN [ kind |-> "Err", msg |-> "no filepath was specified" ]
               ELSE IF Len(a) < 3
                 THEN [ kind |-> "Panic" ]
                 ELSE [ kind |-> "Ok", do_encode |-> FALSE, path |-> a[3] ]
        ELSE [ kind |-> "Ok", do_encode |-> TRUE, path |-> a[2] ]

\* bail, lines 108-111: the line written to the error stream
bail(msg) == << "rle-rs: error: ", msg >>

\* the extension chosen by run, lines 41-47, and the output path of line 52
ext(do_encode) == IF do_encode THEN "rle" ELSE "dat"
OutPath(path, do_encode) == path \o "." \o ext(do_encode)

\* main, lines 8-20: build the Config; an Err is reported and ends the process
MainStart ==
    /\ pc = "main"
    /\ config' = Config_new(args)
    /\ CASE config'.kind = "Err" ->
              /\ stderr' = bail(<< "invalid arguments: ", config'.msg >>)
              /\ exit_code' = << BailCode >>
              /\ pc' = "exit"
         [] config'.kind = "Panic" ->
              /\ pc' = "panic"
              /\ UNCHANGED << stderr, exit_code >>
         [] config'.kind = "Ok" ->
              /\ pc' = "run"
              /\ UNCHANGED << stderr, exit_code >>
    /\ UNCHANGED << args, fs, log, b >>
    /\ UNCHANGED codecVars

\* run, lines 34-50: choose the function, read the file and call the function
\* on its bytes.  A failed read skips the call and the write, and main
\* (line 25) reports the error and exits.
RunRead ==
    /\ pc = "run"
    /\ IF fs[config.path] = NoFile
         THEN /\ stderr' = bail(<< "io: read ", config.path >>)
              /\ exit_code' = << BailCode >>
              /\ pc' = "exit"
              /\ log' = Append(log, << "read failed", config.path >>)
              /\ UNCHANGED << func, bytes >>
         ELSE /\ func' = (IF config.do_encode THEN "encode" ELSE "decode")
              /\ bytes' = fs[config.path]
              /\ pc' = func'
              /\ log' = log \o << << "read", config.path, fs[config.path] >>,
                                  << "call", func' >> >>
              /\ UNCHANGED << stderr, exit_code >>
    /\ UNCHANGED << args, config, fs, b >>
    /\ UNCHANGED << encoding, occurrences, it, decoding, result, iters, finals >>

\* run, lines 51-53, and main, lines 22-27: the function has returned; write
\* its result to <path>.<ext>.  The write succeeds or fails (an unwritable
\* path); main exits with 0, or reports the error and exits with bail's 1.
RunWrite ==
    /\ pc = "ret"
    /\ LET out == OutPath(config.path, config.do_encode) IN
         \E ok \in BOOLEAN :
           IF ok
             THEN /\ fs' = [ fs EXCEPT ![out] = result ]
                  /\ log' = Append(log, << "write", out >>)
                  /\ exit_code' = << 0 >>
                  /\ UNCHANGED stderr
             ELSE /\ log' = Append(log, << "write failed", out >>)
                  /\ stderr' = bail(<< "io: write ", out >>)
                  /\ exit_code' = << BailCode >>
                  /\ UNCHANGED fs
    /\ pc' = "exit"
    /\ UNCHANGED << args, config, b >>
    /\ UNCHANGED codecVars

\* a panic (line 97 or line 139) unwinds out of main: the runtime prints the
\* panic message and the process ends with status 101, nothing is written
MainPanic ==
    /\ pc = "panic"
    /\ stderr' = << "thread 'main' panicked" >>
    /\ exit_code' = << PanicCode >>
    /\ pc' = "exit"
    /\ UNCHANGED << args, config, fs, log, b >>
    /\ UNCHANGED codecVars

\* command lines and files of the scenarios
ArgVectors ==
    { << "rle-rs" >>, << "rle-rs", "d" >>, << "rle-rs", "d", "f" >>,
      << "rle-rs", "f" >>, << "rle-rs", "x", "f" >>, << "rle-rs", "d", "f", "x" >> }
InPaths == { "f", "x" }
Paths == InPaths \cup { OutPath(p, e) : p \in InPaths, e \in BOOLEAN }
FileBytes == { 1, 2, 3 }
FileContents == SeqsUpTo(FileBytes, MaxFileLen)

InitMain ==
    /\ CodecIdle
    /\ func = "none" /\ bytes = <<>> /\ b = NoData
    /\ pc = "main"
    /\ args \in ArgVectors
    /\ config = NoConfig
    /\ \E cf \in FileContents \cup { NoFile }, cx \in { NoFile, << 3, 3, 3 >> } :
         fs = [ p \in Paths |-> IF p = "f" THEN cf ELSE IF p = "x" THEN cx ELSE NoFile ]
    /\ log = <<>>
    /\ stderr = <<>>
    /\ exit_code = NotExited

NextMain == MainStart \/ RunRead \/ Codec \/ RunWrite \/ MainPanic

SpecMain == InitMain /\ [][NextMain]_vars

-----------------------------------------------------------------------------
(* Reference definitions used by the properties *)

Even(n) == n % 2 = 0
Min(x, y) == IF x <= y THEN x ELSE y
CeilDiv(n, d) == (n + d - 1) \div d
Range(s) == { s[j] : j \in 1..Len(s) }
Constant(s) == \A j \in 1..Len(s) : s[j] = s[1]

\* an encoded sequence read as pairs: pair k (from 1) holds its value at Rust
\* index 2(k-1) and its count at Rust index 2(k-1)+1
NPairs(e) == Len(e) \div 2
Value(e, k) == e[2 * k - 1]
Count(e, k) == e[2 * k]

\* the sum of the counts of the first k pairs
RECURSIVE CountSum(_, _)
CountSum(e, k) == IF k <= 0 THEN 0 ELSE Count(e, k) + CountSum(e, k - 1)

\* the left-to-right greedy split: the run starting at position k ends when
\* the next byte differs, the input ends, or the run has reached Cap bytes
GreedyLen(s, k) ==
    CHOOSE n \in 1..Min(Cap, Len(s) - k + 1) :
      /\ \A j \in k..(k + n - 1) : s[j] = s[k]
      /\ (n = Cap \/ k + n > Len(s) \/ s[k + n] # s[k])
RECURSIVE GreedyFrom(_, _)
GreedyFrom(s, k) ==
    IF k > Len(s) THEN <<>>
    ELSE LET n == GreedyLen(s, k) IN << s[k], n >> \o GreedyFrom(s, k + n)

\* the maximal runs of s, as << first, last >> positions
RunStarts(s) == { p \in 1..Len(s) : p = 1 \/ s[p - 1] # s[p] }
RunEnd(s, p) ==
    LET later == { q \in RunStarts(s) : q > p } IN
      IF later = {} THEN Len(s)
      ELSE (CHOOSE q \in later : \A r \in later : q <= r) - 1
MaximalRuns(s) == { << p, RunEnd(s, p) >> : p \in RunStarts(s) }

\* the pairs of e that lie inside positions p..q of the raw data
PairsWithin(e, p, q) ==
    { k \in 1..NPairs(e) : CountSum(e, k - 1) >= p - 1 /\ CountSum(e, k) <= q }

EncodeReturned == func = "encode" /\ pc = "ret"
DecodeReturned == func = "decode" /\ pc = "ret"

-----------------------------------------------------------------------------
(* Properties *)

\* C1: round trip.  For every raw input b, encode(b) followed by decode of
\* its result ends without a panic and returns exactly b.
C1_RoundTrip ==
    b # NoData =>
      /\ pc # "panic"
      /\ DecodeReturned => result = b

\* a round trip of an input with a run longer than Cap holding 0 and 255
C1_Witness ==
    /\ b # NoData
    /\ DecodeReturned
    /\ result = b
    /\ Len(b) > 2 * Cap
    /\ { 0, 255 } \subseteq Range(b)
    /\ \A j \in 1..(Cap + 1) : b[j] = b[1]

\* C2: for every odd-length input, decode ends with a defined MalformedInput
\* error: not with a panic, and not with a (truncated) byte vector.
DecodeOutcome ==
    IF pc = "panic" THEN "panic"
    ELSE IF pc = "ret" THEN "bytes"
    ELSE "running"
C2_OddLengthIsMalformedInput ==
    (func = "decode" /\ ~Even(Len(bytes)) /\ DecodeOutcome # "running") =>
        DecodeOutcome = "MalformedInput"

\* C3: run cap.  Encoding n >= 1 copies of v gives ceil(n/Cap) pairs, all of
\* value v, with count Cap for all but the last and the rest for the last;
\* 255 bytes give (v,255), 256 give (v,255)(v,1), 300 give (v,255)(v,45).
C3_RunCap ==
    (EncodeReturned /\ Len(bytes) >= 1 /\ Constant(bytes)) =>
      LET n == Len(bytes)
          v == bytes[1]
          m == CeilDiv(n, Cap)
      IN  /\ Len(result) = 2 * m
          /\ \A k \in 1..m :
               /\ Value(result, k) = v
               /\ Count(result, k) = IF k < m THEN Cap ELSE n - Cap * (m - 1)
          /\ n = 255 => result = << v, 255 >>
          /\ n = 256 => result = << v, 255, v, 1 >>
          /\ n = 300 => result = << v, 255, v, 45 >>

\* 300 equal bytes have been encoded as two pairs, 255 and 45
C3_Witness ==
    /\ EncodeReturned
    /\ Len(bytes) = 300
    /\ Constant(bytes)
    /\ result = << bytes[1], 255, bytes[1], 45 >>

\* C4: encode(b) has even length, every count is in 1..255, every pair's
\* value is the value of the bytes of b its count covers, and the counts sum
\* to the length of b.
C4_EncodedShape ==
    EncodeReturned =>
      /\ Even(Len(result))
      /\ \A k \in 1..NPairs(result) :
           /\ Count(result, k) \in 1..255
           /\ \A j \in (CountSum(result, k - 1) + 1)..CountSum(result, k) :
                j <= Len(bytes) /\ bytes[j] = Value(result, k)
      /\ CountSum(result, NPairs(result)) = Len(bytes)

\* an encoding of several pairs, one of them with the full count
C4_Witness ==
    /\ EncodeReturned
    /\ NPairs(result) >= 3
    /\ \E k \in 1..NPairs(result) : Count(result, k) = 255
    /\ \E k \in 1..NPairs(result) : Count(result, k) = 1
    /\ CountSum(result, NPairs(result)) = Len(bytes)

\* C5: minimal pairing.  Two consecutive pairs of encode(b) with the same
\* value have 255 as the earlier count; a maximal run of at most 255 bytes
\* of b is exactly one pair, a longer one is several pairs of its value.
C5_MinimalPairing ==
    EncodeReturned =>
      /\ \A k \in 1..(NPairs(result) - 1) :
           Value(result, k) = Value(result, k + 1) => Count(result, k) = 255
      /\ \A r \in MaximalRuns(bytes) :
           LET ks == PairsWithin(result, r[1], r[2]) IN
             /\ \A k \in ks : Value(result, k) = bytes[r[1]]
             /\ IF r[2] - r[1] + 1 <= 255
                  THEN /\ Cardinality(ks) = 1
                       /\ \A k \in ks : Count(result, k) = r[2] - r[1] + 1
                  ELSE Cardinality(ks) > 1

\* a short run became one pair next to a long run split in several pairs
C5_Witness ==
    /\ EncodeReturned
    /\ \E r \in MaximalRuns(bytes) :
         r[2] - r[1] + 1 > 255 /\ Cardinality(PairsWithin(result, r[1], r[2])) > 1
    /\ \E r \in MaximalRuns(bytes) :
         r[2] - r[1] + 1 = 2 /\ Cardinality(PairsWithin(result, r[1], r[2])) = 1

\* C6: encode(b) is the value-then-count flattening of the greedy split of
\* b; encode([]) = [], encode([v]) = [v,1],
\* encode([1,1,1,2,2,3]) = [1,3,2,2,3,1].
C6_GreedySplit ==
    EncodeReturned =>
      /\ result = GreedyFrom(bytes, 1)
      /\ Len(bytes) = 0 => result = <<>>
      /\ Len(bytes) = 1 => result = << bytes[1], 1 >>
      /\ bytes = << 1, 1, 1, 2, 2, 3 >> => result = << 1, 3, 2, 2, 3, 1 >>

\* the mixed-runs example has been encoded
C6_Witness ==
    /\ EncodeReturned
    /\ bytes = << 1, 1, 1, 2, 2, 3 >>
    /\ result = << 1, 3, 2, 2, 3, 1 >>

\* C7: for every even-length input e, decode(e) ends without a panic and
\* returns e[2k] repeated e[2k+1] times for k = 0, 1, ... in order; its
\* length is the sum of the counts and a count of 0 contributes nothing.
C7_DecodeExpands ==
    (func = "decode" /\ Even(Len(bytes))) =>
      /\ pc # "panic"
      /\ pc = "ret" =>
           /\ Len(result) = CountSum(bytes, NPairs(bytes))
           /\ \A k \in 1..NPairs(bytes) :
                \A j \in (CountSum(bytes, k - 1) + 1)..CountSum(bytes, k) :
                  j <= Len(result) /\ result[j] = Value(bytes, k)

\* an arbitrary even-length input with a count of 0 and a count of 255
C7_Witness ==
    /\ DecodeReturned
    /\ b = NoData
    /\ NPairs(bytes) = 2
    /\ Count(bytes, 1) = 0
    /\ Count(bytes, 2) = 255
    /\ result = Rep(Value(bytes, 2), 255)

\* C10 as stated: at every step of the scan occurrences is in 1..255, the
\* partial output has odd length and ends with the open run's value, and for
\* ANY input the scan ends after len(b)-1 iterations and one final push.
C10_ScanAsStated ==
    /\ func = "encode" => pc # "panic"
    /\ (func = "encode" /\ pc = "encode_loop") =>
         /\ occurrences \in 1..255
         /\ ~Even(Len(encoding))
         /\ Last(encoding) = bytes[it]
    /\ EncodeReturned => (iters = Len(bytes) - 1 /\ finals = 1)

\* C10 as amended: the same for every non-empty input; for the empty input
\* encode returns the empty sequence with no iteration and no push.
C10_Scan ==
    /\ func = "encode" => pc # "panic"
    /\ (func = "encode" /\ pc = "encode_loop") =>
         /\ occurrences \in 1..255
         /\ ~Even(Len(encoding))
         /\ Last(encoding) = bytes[it]
         /\ it \in 1..Len(bytes)
         /\ iters = it - 1
         /\ finals = 0
    /\ (EncodeReturned /\ Len(bytes) > 0) =>
         /\ iters = Len(bytes) - 1
         /\ finals = 1
         /\ occurrences \in 1..255
    /\ (EncodeReturned /\ Len(bytes) = 0) =>
         /\ iters = 0
         /\ finals = 0
         /\ result = <<>>

\* the scan of a run longer than Cap stands at the cap, about to close it
C10_Witness ==
    /\ func = "encode"
    /\ pc = "encode_loop"
    /\ occurrences = 255
    /\ it < Len(bytes)
    /\ bytes[it + 1] = bytes[it]

\* C8: argument handling.  No argument, or `d` without a path, is an argument
\* error: no panic, no file read or written, exit code 1.  `d` and a path
\* select decode of that path, any other first argument encode of it.
C8_ArgumentHandling ==
    pc # "main" =>
      IF Len(args) < 2 \/ (args[2] = "d" /\ Len(args) < 3)
        THEN /\ config.kind = "Err"
             /\ pc = "exit"
             /\ exit_code = << 1 >>
             /\ log = <<>>
        ELSE IF args[2] = "d"
          THEN config = [ kind |-> "Ok", do_encode |-> FALSE, path |-> args[3] ]
          ELSE config = [ kind |-> "Ok", do_encode |-> TRUE, path |-> args[2] ]

\* C9: with valid arguments the process ends in success (the file read, the
\* chosen transform applied once, its output written to <path>.rle or
\* <path>.dat, the input unchanged, exit code 0) or in failure (a message on
\* the error stream, exit code 1, and after a failed read no call, no write).
ValidArgs == Len(args) >= 2 /\ (args[2] = "d" => Len(args) >= 3)
ArgMode == IF args[2] = "d" THEN "decode" ELSE "encode"
ArgPath == IF args[2] = "d" THEN args[3] ELSE args[2]
ArgOut == ArgPath \o (IF args[2] = "d" THEN ".dat" ELSE ".rle")
Events == [ k \in 1..Len(log) |-> log[k][1] ]
RunSucceeded ==
    /\ exit_code = << 0 >>
    /\ Events = << "read", "call", "write" >>
    /\ log[1][2] = ArgPath
    /\ log[2][2] = ArgMode
    /\ log[3][2] = ArgOut
    /\ fs[ArgOut] = result
    /\ fs[ArgPath] = log[1][3]
RunFailed ==
    /\ exit_code = << 1 >>
    /\ stderr # <<>>
    /\ Head(Events) = "read failed" =>
         (Events = << "read failed" >> /\ fs[ArgOut] = NoFile)
C9_RunOutcome ==
    (pc = "exit" /\ ValidArgs) =>
       \/ RunSucceeded /\ ~RunFailed
       \/ RunFailed /\ ~RunSucceeded

=============================================================================
